---- MODULE Spec2Model ----
(***************************************************************************)
(* Variable layer height slicing of libslic3r (xs/src/libslic3r/Slicing.cpp)*)
(*                                                                         *)
(* Numbers.  coordf_t (double) lengths are fixed-point integers, one unit  *)
(* = 1e-5 mm, so 0.05 mm = 5000, 0.1 mm = 10000 and EPSILON (1e-4 mm) = 10. *)
(* Products and quotients are computed in the order the code computes      *)
(* them; a quotient is rounded down.  lerp's parameter t is a fixed-point  *)
(* fraction of TScale, the raised cosine weight a fraction of WScale.      *)
(* A size_t index that wrapped below zero is kept as the negative integer  *)
(* (-2 stands for SIZE_MAX - 1); a read through such an index, or of        *)
(* element size()-2 of an empty vector, is undefined behaviour and yields   *)
(* a value chosen from Garbage.                                            *)
(***************************************************************************)
EXTENDS Integers, Sequences, FiniteSets, TLC

VARIABLES pc, cfg, params, ranges, profile, layers, edit, loop

vars == <<pc, cfg, params, ranges, profile, layers, edit, loop>>

(***************************************************************************)
(* Program constants                                                       *)
(***************************************************************************)
\* libslic3r's EPSILON, 1e-4 mm (used at Slicing.cpp:127 and elsewhere).
EPSILON == 10
\* params.min_layer_height = 0.05;
MinLayerHeightFloor == 5000
\* coordf_t z_step = 0.1;
z_step == 10000
\* height = 999;
HeightCap == 99900000
\* coordf_t min_object_extruder_dmr = 1000000.;  (kept below the 32 bit range)
DmrInfinity == 1000000000
\* Resolution of lerp's parameter t (a double in [0, 1] in the code).
TScale == 10000
\* Resolution of the raised cosine weight (a double in [0, 1] in the code).
WScale == 1000
\* Resolution of the phase (zz - z) / band_width handed to cos().
PScale == 1000

(***************************************************************************)
(* Bounds of the model                                                     *)
(***************************************************************************)
\* Largest number of raft layers configured.
MaxRaftLayers == 2
\* Largest number of user height ranges.
MaxRanges == 2
\* Largest number of adjust_layer_height_profile calls in a row.
MaxEdits == 2
\* Largest number of cusp height oracle calls answered with a free choice.
MaxOracle == 3

Min2(a, b) == IF a < b THEN a ELSE b
Max2(a, b) == IF a > b THEN a ELSE b
Abs(a) == IF a < 0 THEN -a ELSE a

\* std::vector element i (zero based) of a TLA+ sequence.
At(v, i) == v[i + 1]

RECURSIVE SumSeq(_)
SumSeq(s) == IF s = <<>> THEN 0 ELSE Head(s) + SumSeq(Tail(s))

RECURSIVE SetSum(_, _)
SetSum(S, f) ==
    IF S = {} THEN 0
    ELSE LET x == CHOOSE y \in S : TRUE IN f[x] + SetSum(S \ {x}, f)

RECURSIVE SetMin(_, _, _)
SetMin(S, f, acc) ==
    IF S = {} THEN acc
    ELSE LET x == CHOOSE y \in S : TRUE IN SetMin(S \ {x}, f, Min2(acc, f[x]))

(***************************************************************************)
(* Configuration (PrintConfig / PrintObjectConfig), the inputs of          *)
(* create_from_config.                                                     *)
(***************************************************************************)
\* print_config.nozzle_diameter, by zero based extruder index: 0.4 and 0.6 mm.
NozzleDiameters == <<40000, 60000>>

\* ConfigOptionFloats::get_at
nozzle_get_at(i) == At(NozzleDiameters, i)

\* ConfigOptionFloatOrPercent::get_abs_value(ratio_over)
get_abs_value(opt, ratio_over) ==
    IF opt.percent THEN (ratio_over * opt.value) \div 100 ELSE opt.value

\* 0.75 * d
ThreeQuarters(d) == (3 * d) \div 4

\* SlicingParameters::raft_layers()
raft_layers(p) == p.base_raft_layers + p.interface_raft_layers

\* SlicingParameters::has_raft()
has_raft(p) == raft_layers(p) > 0

\* SlicingParameters::object_print_z_height()
object_print_z_height(p) == p.object_print_z_max - p.object_print_z_min

\* SlicingParameters::first_object_layer_height_fixed()
first_object_layer_height_fixed(p) == ~p.first_object_layer_bridging

\* SlicingParameters(): the default constructed value.
DefaultParams ==
    [ layer_height |-> 0, first_object_layer_height |-> 0,
      first_object_layer_bridging |-> FALSE,
      min_layer_height |-> 0, max_layer_height |-> 0,
      object_print_z_min |-> 0, object_print_z_max |-> 0,
      base_raft_layers |-> 0, interface_raft_layers |-> 0,
      base_raft_layer_height |-> 0, interface_raft_layer_height |-> 0,
      contact_raft_layer_height |-> 0,
      contact_raft_layer_height_bridging |-> FALSE ]

\* Lines 41-68: the raft stack.
RaftStep(c, p0, first_layer_height) ==
    IF p0.base_raft_layers > 0
    THEN LET support_material_extruder_dmr == nozzle_get_at(c.support_material_extruder - 1)
             support_material_interface_extruder_dmr ==
                 nozzle_get_at(c.support_material_interface_extruder - 1)
             soluble_interface == c.support_material_contact_distance = 0
             interface == (p0.base_raft_layers + 1) \div 2
             average_object_extruder_dmr ==
                 IF c.object_extruders # {}
                 THEN SetSum(c.object_extruders, [e \in c.object_extruders |-> nozzle_get_at(e)])
                          \div Cardinality(c.object_extruders)
                 ELSE 0
         IN [p0 EXCEPT
               !.interface_raft_layers = interface,
               !.base_raft_layers = p0.base_raft_layers - interface,
               !.base_raft_layer_height =
                   Max2(p0.layer_height, ThreeQuarters(support_material_extruder_dmr)),
               !.interface_raft_layer_height =
                   Max2(p0.layer_height, ThreeQuarters(support_material_interface_extruder_dmr)),
               !.contact_raft_layer_height_bridging = FALSE,
               !.contact_raft_layer_height =
                   Max2(p0.layer_height, ThreeQuarters(support_material_interface_extruder_dmr)),
               !.first_object_layer_height =
                   IF soluble_interface THEN p0.first_object_layer_height
                   ELSE average_object_extruder_dmr,
               !.first_object_layer_bridging = ~soluble_interface]
    ELSE p0

\* Lines 70-86: lift the object by the raft.
LiftStep(c, p1, first_layer_height) ==
    IF has_raft(p1)
    THEN LET print_z0 == first_layer_height + c.support_material_contact_distance
             print_z ==
                 IF raft_layers(p1) = 1 THEN print_z0
                 ELSE print_z0
                      + (p1.base_raft_layers - 1) * p1.base_raft_layer_height
                      + (p1.interface_raft_layers - 1) * p1.interface_raft_layer_height
                      + p1.contact_raft_layer_height
         IN [p1 EXCEPT
               !.contact_raft_layer_height =
                   IF raft_layers(p1) = 1 THEN first_layer_height
                   ELSE p1.contact_raft_layer_height,
               !.object_print_z_min = print_z,
               !.object_print_z_max = p1.object_print_z_max + print_z]
    ELSE p1

\* Lines 88-101: the bounds of the layer height.
BoundsStep(c, p2, first_layer_height) ==
    LET max0 == Max2(p2.layer_height, first_layer_height)
        min_object_extruder_dmr ==
            SetMin(c.object_extruders,
                   [e \in c.object_extruders |-> nozzle_get_at(e)], DmrInfinity)
    IN [p2 EXCEPT
          !.min_layer_height = MinLayerHeightFloor,
          !.max_layer_height =
              IF c.object_extruders # {}
              THEN Max2(max0, ThreeQuarters(min_object_extruder_dmr))
              ELSE max0]

\* SlicingParameters::create_from_config
create_from_config(c) ==
    LET first_layer_height ==
            IF c.first_layer_height.value <= 0 THEN c.layer_height
            ELSE get_abs_value(c.first_layer_height, c.layer_height)
        p0 == [DefaultParams EXCEPT
                 !.layer_height = c.layer_height,
                 !.first_object_layer_height = first_layer_height,
                 !.object_print_z_min = 0,
                 !.object_print_z_max = c.object_height,
                 !.base_raft_layers = c.raft_layers]
    IN BoundsStep(c, LiftStep(c, RaftStep(c, p0, first_layer_height), first_layer_height),
                  first_layer_height)

(***************************************************************************)
(* layer_height_profile_from_ranges                                        *)
(***************************************************************************)
\* A t_layer_height_ranges entry: key (lo, hi), value height.
Range(lo, hi, height) == [lo |-> lo, hi |-> hi, height |-> height]

\* profile[size() - 2] and profile[size() - 1] of a non-empty profile.
LastZ(prof) == IF prof = <<>> THEN 0 ELSE prof[Len(prof) - 1]
LastHeight(prof) == IF prof = <<>> THEN 0 ELSE prof[Len(prof)]

\* Lines 120-130: one turn of the trimming loop.
TrimRange(p, rno, r) ==
    LET hi == Min2(r.hi, object_print_z_height(p))
        lo == IF rno # <<>> THEN Max2(r.lo, rno[Len(rno)].hi) ELSE r.lo
    IN IF lo + EPSILON < hi THEN Append(rno, Range(lo, hi, r.height)) ELSE rno

RECURSIVE TrimRanges(_, _, _)
TrimRanges(p, rno, rs) ==
    IF rs = <<>> THEN rno
    ELSE TrimRanges(p, TrimRange(p, rno, Head(rs)), Tail(rs))

\* ranges_non_overlapping without the seeded first layer range.
ranges_non_overlapping_NoSeed(p, rs) == TrimRanges(p, <<>>, rs)

\* Lines 113-130: the first layer if fixed, then the trimmed user ranges.
ranges_non_overlapping(p, rs) ==
    TrimRanges(p,
               IF first_object_layer_height_fixed(p)
               THEN <<Range(0, p.first_object_layer_height, p.first_object_layer_height)>>
               ELSE <<>>,
               rs)

\* EmitRange with the nominal layer height pushed for the overridden step too.
EmitRange_Nominal(p, prof, r) ==
    LET last_z == LastZ(prof)
        filler == IF r.lo > last_z + EPSILON
                  THEN <<last_z, p.layer_height, r.lo, p.layer_height>>
                  ELSE <<>>
    IN prof \o filler \o <<r.lo, p.layer_height, r.hi, p.layer_height>>

\* Lines 135-153: one turn of the conversion loop.
EmitRange(p, prof, r) ==
    LET last_z == LastZ(prof)
        filler == IF r.lo > last_z + EPSILON
                  THEN <<last_z, p.layer_height, r.lo, p.layer_height>>
                  ELSE <<>>
    IN prof \o filler \o <<r.lo, r.height, r.hi, r.height>>

RECURSIVE EmitRanges(_, _, _)
EmitRanges(p, prof, rno) ==
    IF rno = <<>> THEN prof
    ELSE EmitRanges(p, EmitRange(p, prof, Head(rno)), Tail(rno))

\* FillToTop with the first layer's height in the place of the nominal one.
FillToTop_FirstHeight(p, prof) ==
    IF LastZ(prof) < object_print_z_height(p)
    THEN prof \o <<LastZ(prof), p.first_object_layer_height,
                   object_print_z_height(p), p.first_object_layer_height>>
    ELSE prof

\* Lines 155-163: the step of normal layer height up to the object top.
FillToTop(p, prof) ==
    IF LastZ(prof) < object_print_z_height(p)
    THEN prof \o <<LastZ(prof), p.layer_height, object_print_z_height(p), p.layer_height>>
    ELSE prof

layer_height_profile_from_ranges(p, rs) ==
    FillToTop(p, EmitRanges(p, <<>>, ranges_non_overlapping(p, rs)))

(***************************************************************************)
(* Piecewise linear reading of a profile                                   *)
(***************************************************************************)
\* template lerp: (1. - t) * a + t * b, t a fraction of TScale.
lerp(a, b, t) == ((TScale - t) * a + t * b) \div TScale

\* The assertion of lerp: t >= -EPSILON && t <= 1 + EPSILON.
lerp_assert(t) == t >= 0 /\ t <= TScale

\* (z - z1) / (z2 - z1) as a fraction of TScale.
Ratio(z, z1, z2) == ((z - z1) * TScale) \div (z2 - z1)

\* template clamp
clamp(low, high, value) == Max2(low, Min2(high, value))

\* Number of (Z, height) samples of a profile.
NSamples(prof) == Len(prof) \div 2
SampleZ(prof, k) == prof[2 * k - 1]
SampleH(prof, k) == prof[2 * k]

(***************************************************************************)
(* generate_object_layers                                                  *)
(* slice_z is carried doubled (slice_z2 = 2 * slice_z), so that             *)
(* print_z + 0.5 * height is exact.                                        *)
(***************************************************************************)
\* Lines 433-438: walk the profile forward to the segment holding slice_z.
RECURSIVE AdvanceIdx(_, _, _)
AdvanceIdx(prof, idx, slice_z2) ==
    LET next == idx + 2
    IN IF next >= Len(prof) \/ slice_z2 < 2 * At(prof, next) THEN idx
       ELSE AdvanceIdx(prof, next, slice_z2)

\* Lines 430-448: the height of the profile at slice_z.
ProbeHeight(p, prof, idx, slice_z2) ==
    IF idx < Len(prof)
    THEN LET i == AdvanceIdx(prof, idx, slice_z2)
             next == i + 2
             z1 == At(prof, i)
             h1 == At(prof, i + 1)
         IN IF next < Len(prof)
            THEN LET z2 == At(prof, next)
                     h2 == At(prof, next + 1)
                     t == ((slice_z2 - 2 * z1) * (TScale \div 2)) \div (z2 - z1)
                     h == lerp(h1, h2, t)
                 IN [idx |-> i, height |-> h,
                     ok |-> /\ lerp_assert(t)
                            /\ h >= p.min_layer_height - EPSILON
                            /\ h <= p.max_layer_height + EPSILON]
            ELSE [idx |-> i, height |-> h1, ok |-> TRUE]
    ELSE [idx |-> idx, height |-> p.min_layer_height, ok |-> TRUE]

\* Lines 415-428: the state before the loop.
LayersInit(p) ==
    LET fixed == first_object_layer_height_fixed(p)
        print_z == IF fixed THEN p.first_object_layer_height ELSE 0
    IN [print_z |-> print_z,
        slice_z2 |-> 2 * print_z + p.min_layer_height,
        idx |-> 0,
        out |-> IF fixed THEN <<0, print_z>> ELSE <<>>,
        done |-> FALSE,
        assert_ok |-> TRUE]

\* Line 429: the loop condition.
LayersCond(p, st) == ~st.done /\ st.slice_z2 < 2 * object_print_z_height(p)

\* LayersStep without the midpoint probe of lines 449-451: the layer is
\* committed whenever the loop condition let the turn start.
LayersStep_NoProbe(p, prof, st) ==
    LET probe == ProbeHeight(p, prof, st.idx, st.slice_z2)
        height == probe.height
    IN [st EXCEPT
          !.idx = probe.idx,
          !.out = st.out \o <<st.print_z, st.print_z + height>>,
          !.print_z = st.print_z + height,
          !.slice_z2 = 2 * (st.print_z + height) + p.min_layer_height,
          !.assert_ok = st.assert_ok /\ probe.ok]

\* LayersStep probing a full step ahead (print_z + height) instead of half
\* a step.
LayersStep_FullStep(p, prof, st) ==
    LET probe == ProbeHeight(p, prof, st.idx, st.slice_z2)
        height == probe.height
    IN IF st.print_z + height >= object_print_z_height(p)
       THEN [st EXCEPT !.idx = probe.idx, !.done = TRUE]
       ELSE [st EXCEPT
               !.idx = probe.idx,
               !.out = st.out \o <<st.print_z, st.print_z + height>>,
               !.print_z = st.print_z + height,
               !.slice_z2 = 2 * (st.print_z + height) + p.min_layer_height]

\* Lines 430-457: one turn of the loop.
LayersStep(p, prof, st) ==
    LET probe == ProbeHeight(p, prof, st.idx, st.slice_z2)
        height == probe.height
        slice_z2 == 2 * st.print_z + height
    IN IF slice_z2 >= 2 * object_print_z_height(p)
       THEN [st EXCEPT !.idx = probe.idx, !.slice_z2 = slice_z2, !.done = TRUE,
                       !.assert_ok = st.assert_ok /\ probe.ok]
       ELSE [st EXCEPT
               !.idx = probe.idx,
               !.out = st.out \o <<st.print_z, st.print_z + height>>,
               !.print_z = st.print_z + height,
               !.slice_z2 = 2 * (st.print_z + height) + p.min_layer_height,
               !.assert_ok = /\ st.assert_ok /\ probe.ok
                             /\ height > p.min_layer_height - EPSILON
                             /\ height < p.max_layer_height + EPSILON]

RECURSIVE LayersLoop(_, _, _)
LayersLoop(p, prof, st) ==
    IF LayersCond(p, st) THEN LayersLoop(p, prof, LayersStep(p, prof, st)) ELSE st

generate_object_layers(p, prof) == LayersLoop(p, prof, LayersInit(p))

(***************************************************************************)
(* adjust_layer_height_profile                                             *)
(***************************************************************************)
\* Values an out of bounds read may yield.
Garbage == {-z_step, 0, HeightCap}

\* The choices of one call's out of bounds reads: h1, the height interpolated
\* from layer_height_profile[i] and [i + 1] read through a wrapped i, and back,
\* profile_new[size() - 2] of an empty profile_new.
GarbageReads == [h1 : {0, HeightCap}, back : Garbage]
NoGarbage == [h1 |-> 0, back |-> 0]

\* Lines 285-288: z_span_variable.
z_span_variable(p) ==
    [first |-> IF first_object_layer_height_fixed(p) THEN p.first_object_layer_height ELSE 0,
     second |-> object_print_z_height(p)]

\* Lines 296-308: the segment that holds z.  i is the index the loop stops at.
RECURSIVE CurrentSegment(_, _, _)
CurrentSegment(prof, z, i) ==
    IF i >= Len(prof) THEN -1
    ELSE IF i + 2 = Len(prof) \/ At(prof, i + 2) > z THEN i
    ELSE CurrentSegment(prof, z, i + 2)

\* Lines 295-308: the current layer thickness at z.
current_layer_height(p, prof, z) ==
    LET i == CurrentSegment(prof, z, 0)
    IN IF i < 0 THEN [height |-> p.layer_height, ok |-> TRUE]
       ELSE IF i + 2 = Len(prof) THEN [height |-> At(prof, i + 1), ok |-> TRUE]
       ELSE LET t == Ratio(z, At(prof, i), At(prof, i + 2))
            IN [height |-> lerp(At(prof, i + 1), At(prof, i + 3), t), ok |-> lerp_assert(t)]

\* applicable_delta without the return of lines 327-328 in smoothing mode.
applicable_delta_NoSmoothReturn(p, cur, layer_thickness_delta, action) ==
    IF action = 1
    THEN [return |-> FALSE,
          delta |-> Min2(Abs(layer_thickness_delta), Abs(p.layer_height - cur))]
    ELSE IF layer_thickness_delta > 0
         THEN [return |-> cur >= p.max_layer_height - EPSILON,
               delta |-> Min2(layer_thickness_delta, p.max_layer_height - cur)]
         ELSE [return |-> cur <= p.min_layer_height + EPSILON,
               delta |-> Max2(layer_thickness_delta, p.min_layer_height - cur)]

\* Lines 311-330: the delta that can be applied; none when the function returns.
applicable_delta(p, cur, layer_thickness_delta, action) ==
    IF action = 1
    THEN LET d == Min2(Abs(layer_thickness_delta), Abs(p.layer_height - cur))
         IN [return |-> d < EPSILON, delta |-> d]
    ELSE IF layer_thickness_delta > 0
         THEN [return |-> cur >= p.max_layer_height - EPSILON,
               delta |-> Min2(layer_thickness_delta, p.max_layer_height - cur)]
         ELSE [return |-> cur <= p.min_layer_height + EPSILON,
               delta |-> Max2(layer_thickness_delta, p.min_layer_height - cur)]

\* cos(2 pi q / PScale) as a fraction of WScale, 0 <= q <= PScale / 2, by
\* Bhaskara's rational approximation (absolute error below 0.002).
cos_quarter(q) == ((PScale * PScale - 16 * q * q) * WScale) \div (PScale * PScale + 4 * q * q)
cos_turn(q) == IF 4 * q <= PScale THEN cos_quarter(q) ELSE -cos_quarter(PScale \div 2 - q)

\* Line 357: the raised cosine weight of the sample at zz.
weight(zz, z, band_width) ==
    IF 2 * Abs(zz - z) < band_width
    THEN (WScale + cos_turn((Abs(zz - z) * PScale) \div band_width)) \div 2
    ELSE 0

\* Lines 359-374: the height moved by the weighted delta.
adjusted_height(p, height, w, layer_thickness_delta, action) ==
    IF action = 1
    THEN LET delta == height - p.layer_height
             step0 == (w * layer_thickness_delta) \div WScale
             step == IF Abs(delta) > step0
                     THEN (IF delta > 0 THEN -step0 ELSE step0)
                     ELSE -delta
         IN height + step
    ELSE height + (w * layer_thickness_delta) \div WScale

\* Lines 337-339 and 382-384: from index i on, skip the samples below zz,
\* then step back by one sample.
RECURSIVE SkipBelow(_, _, _)
SkipBelow(prof, i, zz) ==
    IF i < Len(prof) /\ At(prof, i) < zz THEN SkipBelow(prof, i + 2, zz) ELSE i

\* profile_new[profile_new.size() - 2]
Back(pn, g) == IF Len(pn) >= 2 THEN pn[Len(pn) - 1] ELSE g.back

\* Lines 348-355: the height of the old profile at zz, in segment i.
window_height(prof, i, zz, g) ==
    IF i < 0 THEN [height |-> g.h1, ok |-> FALSE]
    ELSE IF i + 2 < Len(prof)
         THEN LET t == Ratio(zz, At(prof, i), At(prof, i + 2))
              IN [height |-> lerp(At(prof, i + 1), At(prof, i + 3), t), ok |-> lerp_assert(t)]
         ELSE [height |-> At(prof, i + 1), ok |-> TRUE]

\* Lines 346-385: one turn of the resampling loop.
ResampleCond(ctx, st) == st.zz < ctx.hi

ResampleStep(p, prof, ctx, st) ==
    LET wh == window_height(prof, st.i, st.zz, ctx.g)
        w == weight(st.zz, ctx.z, ctx.band_width)
        height == adjusted_height(p, wh.height, w, ctx.delta, ctx.action)
        push == Back(st.pn, ctx.g) + EPSILON < st.zz
        zz == st.zz + z_step
    IN [zz |-> zz,
        i |-> SkipBelow(prof, st.i + 2, zz) - 2,
        pn |-> IF push
               THEN st.pn \o <<st.zz, clamp(p.min_layer_height, p.max_layer_height, height)>>
               ELSE st.pn,
        written |-> IF push THEN st.written \cup {st.zz} ELSE st.written,
        assert_ok |-> st.assert_ok /\ wh.ok,
        ub |-> st.ub \/ st.i < 0 \/ Len(st.pn) < 2]

RECURSIVE ResampleLoop(_, _, _, _)
ResampleLoop(p, prof, ctx, st) ==
    IF ResampleCond(ctx, st) THEN ResampleLoop(p, prof, ctx, ResampleStep(p, prof, ctx, st))
    ELSE st

\* Lines 333-344: the window, the index of its segment and the copied prefix.
ResampleInit(p, prof, ctx) ==
    LET i == SkipBelow(prof, 0, ctx.lo) - 2
    IN [zz |-> ctx.lo,
        i |-> i,
        pn |-> SubSeq(prof, 1, i + 2),
        written |-> {},
        assert_ok |-> i >= 0 /\ i + 1 < Len(prof),
        ub |-> FALSE]

\* Lines 387-394: stitch the rest of the old profile behind the window.
Stitch(prof, st, g) ==
    LET i == st.i + 2
    IN IF i < Len(prof)
       THEN [profile |->
                 st.pn
                 \o (IF Back(st.pn, g) + z_step < At(prof, i)
                     THEN <<Back(st.pn, g) + z_step, At(prof, i + 1)>>
                     ELSE <<>>)
                 \o SubSeq(prof, i + 1, Len(prof)),
             ub |-> st.ub \/ Len(st.pn) < 2]
       ELSE [profile |-> st.pn, ub |-> st.ub]

\* Lines 397-407: the assertions on the new profile.
profile_asserts(p, prof) ==
    /\ Len(prof) > 2
    /\ Len(prof) % 2 = 0
    /\ prof[1] = 0
    /\ \A k \in 2..NSamples(prof) : SampleZ(prof, k - 1) <= SampleZ(prof, k)
    /\ \A k \in 1..NSamples(prof) :
          /\ SampleH(prof, k) > p.min_layer_height - EPSILON
          /\ SampleH(prof, k) < p.max_layer_height + EPSILON

adjust_layer_height_profile(p, prof, z, layer_thickness_delta, band_width, action, g) ==
    LET span == z_span_variable(p)
        cur == current_layer_height(p, prof, z)
        ad == applicable_delta(p, cur.height, layer_thickness_delta, action)
        ctx == [z |-> z, delta |-> ad.delta, band_width |-> band_width, action |-> action,
                g |-> g,
                lo |-> Max2(span.first, z - band_width \div 2),
                hi |-> Min2(span.second, z + band_width \div 2)]
        st0 == ResampleInit(p, prof, ctx)
        st == ResampleLoop(p, prof, ctx, st0)
        res == Stitch(prof, st, g)
    IN IF z < span.first \/ z > span.second
       THEN [profile |-> prof, outcome |-> "out_of_span", assert_ok |-> TRUE, ub |-> FALSE,
             index_ok |-> TRUE, written |-> {}]
       ELSE IF Len(prof) < 2
       THEN [profile |-> prof, outcome |-> "no_profile", assert_ok |-> FALSE, ub |-> TRUE,
             index_ok |-> FALSE, written |-> {}]
       ELSE IF ad.return
       THEN [profile |-> prof, outcome |-> "not_applicable", assert_ok |-> cur.ok,
             ub |-> FALSE, index_ok |-> TRUE, written |-> {}]
       ELSE [profile |-> res.profile, outcome |-> "resampled",
             assert_ok |-> cur.ok /\ st.assert_ok /\ profile_asserts(p, res.profile),
             ub |-> res.ub, index_ok |-> st0.assert_ok, written |-> st.written]

(***************************************************************************)
(* layer_height_profile_adaptive                                           *)
(***************************************************************************)
\* Lines 189-198: the state before the loop.
AdaptiveInit(p) ==
    [profile |-> <<0, p.first_object_layer_height>>
                 \o (IF first_object_layer_height_fixed(p)
                     THEN <<p.first_object_layer_height, p.first_object_layer_height>>
                     ELSE <<>>),
     slice_z |-> p.first_object_layer_height,
     height |-> p.first_object_layer_height]

\* Line 200: the loop condition.
AdaptiveCond(p, st) == st.slice_z - st.height <= object_print_z_height(p)

\* AdaptiveStep that records the sample but does not advance slice_z.
AdaptiveStep_NoAdvance(p, st, cusp_height) ==
    LET height == Min2(cusp_height, HeightCap)
    IN [profile |-> st.profile \o <<st.slice_z, height, st.slice_z, height>>,
        slice_z |-> st.slice_z,
        height |-> height]

\* Lines 201-251: one turn of the loop, cusp_height the oracle's answer.
AdaptiveStep(p, st, cusp_height) ==
    LET height == Min2(cusp_height, HeightCap)
    IN [profile |-> st.profile \o <<st.slice_z, height, st.slice_z + height, height>>,
        slice_z |-> st.slice_z + height,
        height |-> height]

\* Lines 254-258: the last segment up to the object top.
AdaptiveFinal(p, st) ==
    LET last == Max2(p.first_object_layer_height, LastZ(st.profile))
    IN st.profile \o <<last, p.first_object_layer_height,
                       object_print_z_height(p), p.first_object_layer_height>>

(***************************************************************************)
(* generate_layer_height_texture: the bytes it writes                      *)
(***************************************************************************)
\* ceil(a / b) and floor(a / b) for b > 0.
CeilDiv(a, b) == -((-a) \div b)
FloorDiv(a, b) == a \div b

\* The least and the greatest of acc and the numbers of S.
LowestOf(S, acc) ==
    IF S = {} THEN acc ELSE Min2(acc, CHOOSE x \in S : \A y \in S : x <= y)
HighestOf(S, acc) ==
    IF S = {} THEN acc ELSE Max2(acc, CHOOSE x \in S : \A y \in S : x >= y)

\* What an integer division by zero can do: trap, or yield zero.
DivOutcomes == {"trap", "zero"}

\* The buffer the caller owns: the main texture and the 2nd LOD level.
BufferSize(rows, cols) == rows * cols * 4 + (rows \div 2) * (cols \div 2) * 4

\* Line 484: the number of cells of the main level.
texture_ncells(p, rows, cols) ==
    Min2((cols - 1) * rows,
         CeilDiv(16 * object_print_z_height(p), p.min_layer_height))

\* Lines 503-504 and 542-543: the cells of a layer [lo, hi] among n cells.
cell_first(p, n, lo) ==
    clamp(0, n - 1, CeilDiv(lo * (n - 1), object_print_z_height(p)))
cell_last(p, n, hi) ==
    clamp(0, n - 1, FloorDiv(hi * (n - 1), object_print_z_height(p)))

\* Lines 524-539 and 561-576: the pixel of a cell in a level that starts at
\* byte base, is ncols pixels wide and nrows pixels high: its row and column,
\* the row/col assertions, and the bytes [first, last) it writes, the
\* duplicate in front of the first pixel of a row included.
Pixel(base, nrows, ncols, cell) ==
    LET row == cell \div (ncols - 1)
        col == cell - row * (ncols - 1)
        at == base + (row * ncols + col) * 4
    IN [row |-> row, col |-> col,
        assert_ok |-> row >= 0 /\ row < nrows /\ col >= 0 /\ col < ncols,
        first |-> IF col = 0 /\ row > 0 THEN at - 4 ELSE at,
        last |-> at + 4]

\* Lines 481-495: the clear and the cell counts, before the loop over layers.
TextureInit(p, rows, cols, level_of_detail_2nd_level) ==
    [rows |-> rows, cols |-> cols,
     level_of_detail_2nd_level |-> level_of_detail_2nd_level,
     ncells |-> texture_ncells(p, rows, cols),
     idx_layer |-> 0,
     cleared |-> rows * cols * 5,
     main_first |-> 0, main_last |-> 0,
     lod_first |-> rows * cols * 4, lod_last |-> rows * cols * 4,
     main_assert_ok |-> TRUE, lod_assert_ok |-> TRUE,
     div_by_zero |-> FALSE, trapped |-> FALSE]

\* Line 496: the condition of the loop over the layers.
TextureCond(out, st) == st.idx_layer < Len(out) /\ ~st.trapped

\* Lines 496-579: one turn of the loop over the layers, g what a division by
\* zero does.
TextureStep(p, out, st, g) ==
    LET lo == At(out, st.idx_layer)
        hi == Min2(At(out, st.idx_layer + 1), object_print_z_height(p))
        ncells1 == st.ncells \div 2
        cols1 == st.cols \div 2
        main == { Pixel(0, st.rows, st.cols, cell) :
                    cell \in cell_first(p, st.ncells, lo)..cell_last(p, st.ncells, hi) }
        cells1 == IF st.level_of_detail_2nd_level
                  THEN cell_first(p, ncells1, lo)..cell_last(p, ncells1, hi)
                  ELSE {}
        by_zero == cells1 # {} /\ cols1 - 1 = 0
        \* cell / 0 taken as 0: row = 0, col = cell.
        lod == IF by_zero
               THEN IF g = "trap" THEN {}
                    ELSE { [row |-> 0, col |-> cell,
                            assert_ok |-> 0 < st.rows \div 2 /\ cell < cols1,
                            first |-> st.rows * st.cols * 4 + cell * 4,
                            last |-> st.rows * st.cols * 4 + cell * 4 + 4] :
                           cell \in cells1 }
               ELSE { Pixel(st.rows * st.cols * 4, st.rows \div 2, cols1, cell) :
                        cell \in cells1 }
    IN [st EXCEPT
          !.idx_layer = @ + 2,
          !.main_first = LowestOf({x.first : x \in main}, @),
          !.main_last = HighestOf({x.last : x \in main}, @),
          !.main_assert_ok = @ /\ \A x \in main : x.assert_ok,
          !.lod_first = LowestOf({x.first : x \in lod}, @),
          !.lod_last = HighestOf({x.last : x \in lod}, @),
          !.lod_assert_ok = @ /\ \A x \in lod : x.assert_ok,
          !.div_by_zero = @ \/ by_zero,
          !.trapped = by_zero /\ g = "trap"]

(***************************************************************************)
(* Inputs                                                                  *)
(***************************************************************************)
FloatOrPercent(value, percent) == [value |-> value, percent |-> percent]

\* layer_height: 0.03 and 0.2 mm.
LayerHeightChoices == {3000, 20000}
\* first_layer_height: unset, 0.04 mm, 0.35 mm, 150 %.
FirstLayerChoices ==
    {FloatOrPercent(0, FALSE), FloatOrPercent(4000, FALSE),
     FloatOrPercent(35000, FALSE), FloatOrPercent(150, TRUE)}
\* support_material_contact_distance: soluble (0) and 0.2 mm.
ContactChoices == {0, 20000}
\* object_height: 0, 0.1 and 1 mm.
ObjectHeights == {0, 10000, 100000}
ExtruderSets == {{}, {0}, {0, 1}}

Configs ==
    [ layer_height : LayerHeightChoices,
      first_layer_height : FirstLayerChoices,
      raft_layers : 0..MaxRaftLayers,
      support_material_contact_distance : ContactChoices,
      support_material_extruder : {1},
      support_material_interface_extruder : {1},
      object_height : ObjectHeights,
      object_extruders : ExtruderSets ]

\* The configurations the profile functions are run with: the nominal layer
\* height 0.2 mm, one extruder, no raft or a full raft under a bridging first
\* object layer.
SliceConfigs ==
    { c \in Configs :
        /\ c.object_extruders = {0}
        /\ c.object_height > 0
        /\ c.layer_height = 20000
        /\ ~c.first_layer_height.percent
        /\ \/ c.raft_layers = 0 /\ c.support_material_contact_distance = 0
           \/ c.raft_layers = MaxRaftLayers /\ c.support_material_contact_distance # 0 }

\* The configurations the editor is run with: the nominal layer height 0.2 mm
\* on an object 1 mm high, the first layer height left unset.
EditConfigs ==
    { c \in SliceConfigs :
        /\ c.object_height = 100000
        /\ c.first_layer_height.value = 0 }

\* Boundaries and heights of the user's height ranges.
RangeZ == {0, 20000, 40000, 60000, 120000}
RangeHeights == {1000, 10000, 100000}
RangeChoices ==
    { r \in [lo : RangeZ, hi : RangeZ, height : RangeHeights] : r.lo < r.hi }

\* std::map order of t_layer_height_ranges: by (lo, hi), keys unique.
RangeKeyLess(a, b) == a.lo < b.lo \/ (a.lo = b.lo /\ a.hi < b.hi)

RangeSeqs(n) ==
    { rs \in [1..n -> RangeChoices] :
        \A k \in 1..(n - 1) : RangeKeyLess(rs[k], rs[k + 1]) }

RangeSets == UNION { RangeSeqs(n) : n \in 0..MaxRanges }

\* Profiles a model object may hold: first Z = 0, Z non-decreasing, every
\* height in [min_layer_height, max_layer_height], ending at the object top.
ProfileZ(p) == {20000, 55000, object_print_z_height(p)}
ProfileH(p) == {p.min_layer_height, p.max_layer_height}

ProfileOf(zs, hs) == [k \in 1..(2 * Len(zs)) |-> IF k % 2 = 1 THEN zs[(k + 1) \div 2] ELSE hs[k \div 2]]

StoredProfiles(p) ==
    LET H == object_print_z_height(p)
    IN { ProfileOf(<<0, H>>, <<h1, h2>>) : h1 \in ProfileH(p), h2 \in ProfileH(p) }
       \cup
       { ProfileOf(<<0, z, H>>, hs) :
           z \in { y \in ProfileZ(p) : y <= H }, hs \in [1..3 -> ProfileH(p)] }

\* The profile invariants of a stored profile.
ProfileInv(p, prof) ==
    /\ Len(prof) % 2 = 0
    /\ Len(prof) >= 2
    /\ prof[1] = 0
    /\ \A k \in 2..NSamples(prof) : SampleZ(prof, k - 1) <= SampleZ(prof, k)
    /\ \A k \in 1..NSamples(prof) :
          /\ SampleH(prof, k) >= p.min_layer_height
          /\ SampleH(prof, k) <= p.max_layer_height

\* The inputs of the editor.
EditZ == {0, 20000, 55000, 95000}
EditDeltas == {-10000, 0, 10000}
EditBands == {0, 10000, 40000}
EditActions == {0, 1}

NoEdit ==
    [n |-> 0, z |-> 0, delta |-> 0, band_width |-> 0, action |-> 0, before |-> <<>>,
     outcome |-> "none", assert_ok |-> TRUE, ub |-> FALSE, index_ok |-> TRUE,
     written |-> {}]
NoLayers == [out |-> <<>>, assert_ok |-> TRUE]
NoTurns == [adaptive |-> 0, resample |-> 0, layers |-> 0]
NoLoop == [kind |-> "none", turns |-> NoTurns]

\* The answers of the cusp height oracle SlicingAdaptive::cusp_height: a free
\* choice for the first MaxOracle calls of a run, the largest height after.
CuspHeights(p) == {p.min_layer_height, p.max_layer_height}
OracleAnswers(p, calls) ==
    IF calls < MaxOracle THEN CuspHeights(p) ELSE {p.max_layer_height}

\* The sizes of the texture: rows >= 1, cols >= 2.
TexRows == {1, 2, 3, 32}
TexCols == {2, 4, 5, 32}

\* The inputs of the editor when its loop is run turn by turn.
TurnEditZ == {20000, 55000}
TurnEditDeltas == {-10000, 10000}
TurnEditBands == {0, 40000}

(***************************************************************************)
(* The state machine                                                       *)
(***************************************************************************)
InitWith(cs, rss) ==
    /\ pc = "config"
    /\ cfg \in cs
    /\ ranges \in rss
    /\ params = DefaultParams
    /\ profile = <<>>
    /\ layers = NoLayers
    /\ edit = NoEdit
    /\ loop = NoLoop

\* SlicingParameters::create_from_config
Create ==
    /\ pc = "config"
    /\ params' = create_from_config(cfg)
    /\ pc' = "params"
    /\ UNCHANGED <<cfg, ranges, profile, layers, edit, loop>>

\* layer_height_profile_from_ranges on the object's height ranges.
BuildFromRanges ==
    /\ pc = "params"
    /\ profile' = layer_height_profile_from_ranges(params, ranges)
    /\ pc' = "profile"
    /\ UNCHANGED <<cfg, params, ranges, layers, edit, loop>>

\* The object already holds a layer height profile.
LoadProfile ==
    /\ pc = "params"
    /\ \E prof \in StoredProfiles(params) : profile' = prof
    /\ pc' = "profile"
    /\ UNCHANGED <<cfg, params, ranges, layers, edit, loop>>

\* Whether the call reads out of bounds: the window starts at the first sample.
Wraps(p, prof, z, band_width) ==
    SkipBelow(prof, 0, Max2(z_span_variable(p).first, z - band_width \div 2)) = 0

\* adjust_layer_height_profile
Adjust ==
    /\ pc = "profile"
    /\ edit.n < MaxEdits
    /\ ~edit.ub
    /\ \E z \in EditZ, d \in EditDeltas, bw \in EditBands, a \in EditActions :
         \E g \in (IF Wraps(params, profile, z, bw) THEN GarbageReads ELSE {NoGarbage}) :
            LET r == adjust_layer_height_profile(params, profile, z, d, bw, a, g)
            IN /\ profile' = r.profile
               /\ edit' = [n |-> edit.n + 1, z |-> z, delta |-> d, band_width |-> bw,
                           action |-> a, before |-> profile, outcome |-> r.outcome,
                           assert_ok |-> r.assert_ok, ub |-> r.ub, index_ok |-> r.index_ok,
                           written |-> r.written]
    /\ UNCHANGED <<pc, cfg, params, ranges, layers, loop>>

\* generate_object_layers
Generate ==
    /\ pc = "profile"
    /\ LET st == generate_object_layers(params, profile)
       IN layers' = [out |-> st.out, assert_ok |-> st.assert_ok]
    /\ pc' = "layers"
    /\ UNCHANGED <<cfg, params, ranges, profile, edit, loop>>

\* The parameter deriver alone.
InitParams == InitWith(Configs, {<<>>})
NextParams == Create
SpecParams == InitParams /\ [][NextParams]_vars

\* The range builder.
InitRanges == InitWith(SliceConfigs, RangeSets)
NextRanges == Create \/ BuildFromRanges
SpecRanges == InitRanges /\ [][NextRanges]_vars

\* The layer boundary generator on stored and built profiles.
InitLayers == InitWith(SliceConfigs, {<<>>})
NextLayers == Create \/ LoadProfile \/ BuildFromRanges \/ Generate
SpecLayers == InitLayers /\ [][NextLayers]_vars

\* The profile editor.
InitEdit == InitWith(EditConfigs, {<<>>})
NextEdit == Create \/ LoadProfile \/ BuildFromRanges \/ Adjust
SpecEdit == InitEdit /\ [][NextEdit]_vars

\* The range builder on an empty range set, then the layer boundary generator.
BuiltConfigs == { c \in Configs : c.object_height > 0 }
InitBuilt == InitWith(BuiltConfigs, {<<>>})
NextBuilt == Create \/ BuildFromRanges \/ Generate
SpecBuilt == InitBuilt /\ [][NextBuilt]_vars

(***************************************************************************)
(* The three loops, turn by turn: the adaptive builder, then the editor,   *)
(* then the layer generator.                                               *)
(***************************************************************************)
\* layer_height_profile_adaptive up to its loop.
StartAdaptive ==
    /\ pc = "params"
    /\ loop' = [kind |-> "adaptive", turns |-> NoTurns, st |-> AdaptiveInit(params)]
    /\ pc' = "adaptive_loop"
    /\ UNCHANGED <<cfg, params, ranges, profile, layers, edit>>

AdaptiveTurn ==
    /\ pc = "adaptive_loop"
    /\ AdaptiveCond(params, loop.st)
    /\ \E cusp_height \in OracleAnswers(params, loop.turns.adaptive) :
          loop' = [loop EXCEPT !.st = AdaptiveStep(params, loop.st, cusp_height),
                               !.turns.adaptive = @ + 1]
    /\ UNCHANGED <<pc, cfg, params, ranges, profile, layers, edit>>

AdaptiveFinish ==
    /\ pc = "adaptive_loop"
    /\ ~AdaptiveCond(params, loop.st)
    /\ profile' = AdaptiveFinal(params, loop.st)
    /\ pc' = "profile"
    /\ UNCHANGED <<cfg, params, ranges, layers, edit, loop>>

\* adjust_layer_height_profile up to its resampling loop, or to its return.
StartResample ==
    /\ pc = "profile"
    /\ \E z \in TurnEditZ, d \in TurnEditDeltas, bw \in TurnEditBands, a \in EditActions :
         \E g \in (IF Wraps(params, profile, z, bw) THEN GarbageReads ELSE {NoGarbage}) :
            LET span == z_span_variable(params)
                cur == current_layer_height(params, profile, z)
                ad == applicable_delta(params, cur.height, d, a)
                ctx == [z |-> z, delta |-> ad.delta, band_width |-> bw, action |-> a,
                        g |-> g,
                        lo |-> Max2(span.first, z - bw \div 2),
                        hi |-> Min2(span.second, z + bw \div 2)]
            IN IF z < span.first \/ z > span.second \/ Len(profile) < 2 \/ ad.return
               THEN /\ pc' = "edited"
                    /\ loop' = loop
               ELSE /\ pc' = "resample_loop"
                    /\ loop' = [kind |-> "resample", turns |-> loop.turns, ctx |-> ctx,
                                st |-> ResampleInit(params, profile, ctx)]
    /\ UNCHANGED <<cfg, params, ranges, profile, layers, edit>>

ResampleTurn ==
    /\ pc = "resample_loop"
    /\ ResampleCond(loop.ctx, loop.st)
    /\ loop' = [loop EXCEPT !.st = ResampleStep(params, profile, loop.ctx, loop.st),
                            !.turns.resample = @ + 1]
    /\ UNCHANGED <<pc, cfg, params, ranges, profile, layers, edit>>

ResampleFinish ==
    /\ pc = "resample_loop"
    /\ ~ResampleCond(loop.ctx, loop.st)
    /\ profile' = Stitch(profile, loop.st, loop.ctx.g).profile
    /\ pc' = "edited"
    /\ UNCHANGED <<cfg, params, ranges, layers, edit, loop>>

\* generate_object_layers up to its loop.
StartLayers ==
    /\ pc = "edited"
    /\ loop' = [kind |-> "layers", turns |-> loop.turns, st |-> LayersInit(params)]
    /\ pc' = "layers_loop"
    /\ UNCHANGED <<cfg, params, ranges, profile, layers, edit>>

LayersTurn ==
    /\ pc = "layers_loop"
    /\ LayersCond(params, loop.st)
    /\ loop' = [loop EXCEPT !.st = LayersStep(params, profile, loop.st),
                            !.turns.layers = @ + 1]
    /\ UNCHANGED <<pc, cfg, params, ranges, profile, layers, edit>>

LayersFinish ==
    /\ pc = "layers_loop"
    /\ ~LayersCond(params, loop.st)
    /\ layers' = [out |-> loop.st.out, assert_ok |-> loop.st.assert_ok]
    /\ pc' = "done"
    /\ UNCHANGED <<cfg, params, ranges, profile, edit, loop>>

InitTurns == InitWith(EditConfigs, {<<>>})
NextTurns ==
    \/ Create
    \/ StartAdaptive \/ AdaptiveTurn \/ AdaptiveFinish
    \/ StartResample \/ ResampleTurn \/ ResampleFinish
    \/ StartLayers \/ LayersTurn \/ LayersFinish
\* The functions run to completion: a step that can be taken is taken.
SpecTurns == InitTurns /\ [][NextTurns]_vars /\ WF_vars(NextTurns)

(***************************************************************************)
(* generate_layer_height_texture on the generated layers, layer by layer.  *)
(***************************************************************************)
TextureStart ==
    /\ pc = "layers"
    /\ \E rows \in TexRows, cols \in TexCols, lod2 \in BOOLEAN :
          loop' = [kind |-> "texture", turns |-> NoTurns,
                   st |-> TextureInit(params, rows, cols, lod2)]
    /\ pc' = "texture_loop"
    /\ UNCHANGED <<cfg, params, ranges, profile, layers, edit>>

TextureTurn ==
    /\ pc = "texture_loop"
    /\ TextureCond(layers.out, loop.st)
    /\ \E g \in DivOutcomes :
          loop' = [loop EXCEPT !.st = TextureStep(params, layers.out, loop.st, g)]
    /\ UNCHANGED <<pc, cfg, params, ranges, profile, layers, edit>>

TextureFinish ==
    /\ pc = "texture_loop"
    /\ ~TextureCond(layers.out, loop.st)
    /\ pc' = IF loop.st.trapped THEN "trapped" ELSE "textured"
    /\ UNCHANGED <<cfg, params, ranges, profile, layers, edit, loop>>

InitTexture == InitWith(SliceConfigs, {<<>>})
NextTexture ==
    \/ Create \/ BuildFromRanges \/ Generate
    \/ TextureStart \/ TextureTurn \/ TextureFinish
SpecTexture == InitTexture /\ [][NextTexture]_vars

(***************************************************************************)
(* Properties                                                              *)
(***************************************************************************)
\* The profile's height at z, read as the editor reads it (lines 295-308).
HeightAt(p, prof, z) == current_layer_height(p, prof, z).height

\* Z non-decreasing over the whole profile.
ZMonotone(prof) ==
    \A k \in 2..NSamples(prof) : SampleZ(prof, k - 1) <= SampleZ(prof, k)

\* C7: every SlicingParameters value returned by create_from_config satisfies
\* min_layer_height <= layer_height <= max_layer_height and
\* object_print_z_max >= object_print_z_min.
C7_ParamsInvariant ==
    pc = "params" =>
        /\ params.min_layer_height <= params.layer_height
        /\ params.layer_height <= params.max_layer_height
        /\ params.object_print_z_max >= params.object_print_z_min

\* C2: the profile returned by layer_height_profile_from_ranges has even
\* length, first Z = 0, non-decreasing Z and last Z = object_print_z_height().
C2_RangeProfileSpans ==
    pc = "profile" =>
        /\ Len(profile) % 2 = 0
        /\ Len(profile) >= 2
        /\ profile[1] = 0
        /\ ZMonotone(profile)
        /\ LastZ(profile) = object_print_z_height(params)

\* C3: every height of the profile returned by layer_height_profile_from_ranges
\* lies in [min_layer_height, max_layer_height].
C3_RangeProfileHeights ==
    pc = "profile" =>
        \A k \in 1..NSamples(profile) :
            /\ SampleH(profile, k) >= params.min_layer_height
            /\ SampleH(profile, k) <= params.max_layer_height

\* Two overlapping user ranges A (visited first) and B: loA < loB < hiA.
Overlapping(A, B) == A.lo < B.lo /\ B.lo < A.hi

\* Three Z strictly inside [a, b): the low end, the middle, the high end.
Probes(a, b) == { z \in {a, (a + b) \div 2, b - 1} : a <= z /\ z < b }

OverlapLow(p, A, B) == Max2(B.lo, z_span_variable(p).first) + EPSILON
OverlapHigh(p, A, B) == Min2(Min2(A.hi, B.hi), object_print_z_height(p))

NLayers == Len(layers.out) \div 2
Bottom(k) == layers.out[2 * k - 1]
Top(k) == layers.out[2 * k]
Thickness(k) == Top(k) - Bottom(k)
SumThickness == SumSeq([k \in 1..NLayers |-> Thickness(k)])

\* The layers the loop produced: all but a fixed first layer.
LoopLayers ==
    IF first_object_layer_height_fixed(params) THEN 2..NLayers ELSE 1..NLayers

\* C4: for a profile that satisfies the profile invariants and spans
\* [0, object_print_z_height()], the layers start at 0, are contiguous,
\* have top > bottom, and every thickness, the fixed first layer's included,
\* lies in [min_layer_height, max_layer_height] up to EPSILON.
C4_LayersWellFormed ==
    (/\ pc = "layers"
     /\ ProfileInv(params, profile)
     /\ LastZ(profile) = object_print_z_height(params)) =>
        /\ NLayers > 0 => Bottom(1) = 0
        /\ \A k \in 1..(NLayers - 1) : Top(k) = Bottom(k + 1)
        /\ \A k \in 1..NLayers :
              /\ Top(k) > Bottom(k)
              /\ Thickness(k) >= params.min_layer_height - EPSILON
              /\ Thickness(k) <= params.max_layer_height + EPSILON

\* C5 as claimed: the top of the last layer does not exceed the object height.
C5_NoOvershoot ==
    (pc = "layers" /\ ProfileInv(params, profile) /\ NLayers > 0) =>
        Top(NLayers) <= object_print_z_height(params)

\* C5 amended: the midpoint probe keeps the middle of every layer the loop
\* produces strictly below the object top (bottom + top < 2 H), so such a
\* layer's top exceeds the object height by less than half its thickness; a
\* fixed first layer is emitted without that check.
C5_MidpointBelowTop ==
    (pc = "layers" /\ ProfileInv(params, profile)) =>
        \A k \in LoopLayers :
            /\ Bottom(k) + Top(k) < 2 * object_print_z_height(params)
            /\ 2 * (Top(k) - object_print_z_height(params)) < Thickness(k)

\* C5 witness: a generated last layer whose top lies above the object top.
C5_Witness ==
    /\ pc = "layers"
    /\ ProfileInv(params, profile)
    /\ NLayers >= 2
    /\ NLayers \in LoopLayers
    /\ Top(NLayers) > object_print_z_height(params)

\* C6 as claimed: the sum of the layer thicknesses differs from the object
\* height by at most one min_layer_height.
C6_CoverageWithinMin ==
    (pc = "layers" /\ ProfileInv(params, profile)) =>
        Abs(SumThickness - object_print_z_height(params)) <= params.min_layer_height

\* C6 amended: the sum of the layer thicknesses falls short of the object
\* height by at most half of max_layer_height (up to EPSILON) and exceeds it by
\* less than that, except when a fixed first layer alone is taller than the
\* object, where the sum is first_object_layer_height.
C6_CoverageWithinHalfMax ==
    (pc = "layers" /\ ProfileInv(params, profile)) =>
        /\ 2 * (object_print_z_height(params) - SumThickness)
               <= params.max_layer_height + EPSILON
        /\ \/ 2 * (SumThickness - object_print_z_height(params))
                  < params.max_layer_height + EPSILON
           \/ /\ first_object_layer_height_fixed(params)
              /\ NLayers = 1
              /\ SumThickness = params.first_object_layer_height

\* C6 witness: layers whose sum misses the object height by more than one
\* min_layer_height.
C6_Witness ==
    /\ pc = "layers"
    /\ ProfileInv(params, profile)
    /\ NLayers >= 2
    /\ Abs(SumThickness - object_print_z_height(params)) > params.min_layer_height

\* C1: after any sequence of adjust_layer_height_profile calls on a profile
\* that satisfies the profile invariants, with a fixed or a bridging first
\* layer, the profile has even length > 2, first Z = 0, non-decreasing Z and
\* heights within EPSILON of [min_layer_height, max_layer_height], and no
\* assertion of the function, the index assertion before the prefix copy
\* included, is violated.
C1_EditKeepsInvariants ==
    (pc = "profile" /\ edit.n > 0) =>
        /\ edit.assert_ok
        /\ edit.index_ok
        /\ Len(profile) % 2 = 0
        /\ Len(profile) > 2
        /\ profile[1] = 0
        /\ ZMonotone(profile)
        /\ \A k \in 1..NSamples(profile) :
              /\ SampleH(profile, k) > params.min_layer_height - EPSILON
              /\ SampleH(profile, k) < params.max_layer_height + EPSILON

\* The last call had its target Z inside the variable span and stayed within
\* defined behaviour.
EditInSpan ==
    /\ pc = "profile"
    /\ edit.n > 0
    /\ ~edit.ub
    /\ edit.index_ok
    /\ edit.z >= z_span_variable(params).first
    /\ edit.z <= z_span_variable(params).second

\* C10 as claimed: a call with layer_thickness_delta = 0 (either mode) or with
\* band_width = 0 leaves the interpolated height at the target Z unchanged
\* within EPSILON.
C10_ZeroEditKeepsHeight ==
    (EditInSpan /\ (edit.delta = 0 \/ edit.band_width = 0)) =>
        Abs(HeightAt(params, profile, edit.z) - HeightAt(params, edit.before, edit.z))
            <= EPSILON

\* C10 amended: with layer_thickness_delta = 0 in smoothing mode (action = 1)
\* the call returns before it touches the profile, so the profile, and with it
\* the interpolated height at the target Z, is unchanged.
C10_SmoothZeroIsNoop ==
    (pc = "profile" /\ edit.n > 0 /\ edit.action = 1 /\ edit.delta = 0) =>
        /\ profile = edit.before
        /\ edit.outcome # "resampled"

\* C10 witness: a smoothing call with delta = 0 whose target Z lies in the
\* variable span, on a profile whose height at Z is off the nominal height.
C10_Witness ==
    /\ EditInSpan
    /\ edit.action = 1
    /\ edit.delta = 0
    /\ edit.band_width > 0
    /\ HeightAt(params, edit.before, edit.z) # params.layer_height

\* The loops' position: a loop is running.
InLoop == pc \in {"adaptive_loop", "resample_loop", "layers_loop"}

\* The Z variable the running loop advances: slice_z of the adaptive builder,
\* zz of the editor, slice_z (doubled) of the layer generator.
LoopZ ==
    IF loop.kind = "adaptive" THEN loop.st.slice_z
    ELSE IF loop.kind = "resample" THEN loop.st.zz
    ELSE IF loop.kind = "layers" THEN loop.st.slice_z2
    ELSE 0

\* A turn of the running loop.
LoopTurn == InLoop /\ pc' = pc /\ loop' # loop

\* C9: with min_layer_height > 0, a finite object height, profile heights and
\* oracle answers >= min_layer_height, every loop (the growth loop of
\* layer_height_profile_adaptive, the resampling loop of
\* adjust_layer_height_profile, the layer loop of generate_object_layers)
\* is left after finitely many turns, and each turn strictly increases the Z
\* variable the loop advances.
C9_LoopsTerminate ==
    /\ [](InLoop => <>(~InLoop))
    /\ <>(pc = "done")
    /\ [][LoopTurn => LoopZ' > LoopZ]_vars

\* C9 witness: all three loops have run, each for at least two turns, and the
\* last one is finished.
C9_Witness ==
    /\ pc = "done"
    /\ loop.turns.adaptive >= 2
    /\ loop.turns.resample >= 2
    /\ loop.turns.layers >= 2

\* No raft, no height ranges, the first layer height equal to the nominal one.
PlainObject ==
    /\ ranges = <<>>
    /\ ~has_raft(params)
    /\ first_object_layer_height_fixed(params)
    /\ params.first_object_layer_height = params.layer_height

\* C11 as claimed: with no raft, no height ranges and a first layer height
\* equal to the nominal layer height h, layer_height_profile_from_ranges
\* returns exactly the four entries [0, h, H, h].
C11_FourEntryProfile ==
    (pc = "profile" /\ PlainObject) =>
        profile = <<0, params.layer_height,
                    object_print_z_height(params), params.layer_height>>

\* C11 amended: the fixed first layer is seeded as a range of its own, so the
\* profile is the eight entries [0, h, h, h, h, h, H, h] when h < H, and the
\* four entries [0, h, h, h] of the first layer alone when h >= H.
C11_SeededProfile ==
    (pc = "profile" /\ PlainObject) =>
        LET h == params.layer_height
            H == object_print_z_height(params)
        IN profile = IF h < H THEN <<0, h, h, h, h, h, H, h>> ELSE <<0, h, h, h>>

\* C11 witness: the profile of such an object taller than its first layer.
C11_Witness ==
    /\ pc = "profile"
    /\ PlainObject
    /\ params.layer_height < object_print_z_height(params)
    /\ Len(profile) = 8

\* The scenario nominal = first = 0.2 mm, no raft, object height 1.0 mm.
Scenario02 ==
    /\ ~has_raft(params)
    /\ params.layer_height = 20000
    /\ params.first_object_layer_height = 20000
    /\ object_print_z_height(params) = 100000

\* C12: generate_object_layers on the profile that
\* layer_height_profile_from_ranges builds from an empty range set yields
\* layers of thickness exactly layer_height, except possibly the first layer,
\* which has the first layer height, and a final layer that may be shorter; in
\* the scenario nominal = first = 0.2, object height 1.0 it yields exactly the
\* 5 layers of thickness 0.2 that cover [0, 1.0].
C12_NominalLayers ==
    (pc = "layers" /\ ranges = <<>>) =>
        /\ \A k \in 1..NLayers :
              \/ Thickness(k) = params.layer_height
              \/ k = 1 /\ Thickness(k) = params.first_object_layer_height
              \/ k = NLayers /\ Thickness(k) < params.layer_height
        /\ Scenario02 =>
              layers.out = <<0, 20000, 20000, 40000, 40000, 60000,
                             60000, 80000, 80000, 100000>>

\* C12 witness: the five layers of the scenario.
C12_Witness ==
    /\ pc = "layers"
    /\ ranges = <<>>
    /\ Scenario02
    /\ NLayers = 5

\* C13: for an oracle answering in [min_layer_height, max_layer_height] the
\* profile returned by layer_height_profile_adaptive has even length, starts
\* at Z = 0, has non-decreasing Z over its whole length, the final appended
\* samples included, and its last Z is object_print_z_height().
C13_AdaptiveProfileInv ==
    (pc = "profile" /\ loop.kind = "adaptive") =>
        /\ Len(profile) % 2 = 0
        /\ profile[1] = 0
        /\ ZMonotone(profile)
        /\ LastZ(profile) = object_print_z_height(params)

\* The height of the profile prof at zz as the resampling loop reads it
\* (lines 347-355): interpolated in the segment that ends at or behind zz.
OrigAt(prof, zz) ==
    LET i == SkipBelow(prof, 0, zz) - 2
    IN IF i < 0 THEN At(prof, 1) ELSE window_height(prof, i, zz, NoGarbage).height

\* The sample written at zz moved from the original height toward the nominal
\* one: it lies between the two, and is off the original one by at most
\* weight * |delta|.
TowardNominal(zz, h) ==
    LET o == OrigAt(edit.before, zz)
        n == params.layer_height
    IN /\ Min2(o, n) <= h
       /\ h <= Max2(o, n)
       /\ Abs(h - o) * WScale <= weight(zz, edit.z, edit.band_width) * Abs(edit.delta)

\* The last call resampled the profile in smoothing mode.
Smoothed ==
    /\ pc = "profile"
    /\ edit.n > 0
    /\ edit.action = 1
    /\ edit.outcome = "resampled"

\* C14: in smoothing mode (action = 1) every sample written inside the
\* resampling window has a height between the interpolated original height at
\* that Z and the nominal layer_height (inclusive), moved toward nominal by at
\* most weight * |delta|, also after the final clamp.
C14_SmoothTowardNominal ==
    Smoothed =>
        \A zz \in edit.written : \A k \in 1..NSamples(profile) :
            SampleZ(profile, k) = zz => TowardNominal(zz, SampleH(profile, k))

\* generate_layer_height_texture runs, or has run, with the 2nd LOD level.
Textured ==
    /\ pc \in {"texture_loop", "textured", "trapped"}
    /\ loop.kind = "texture"
    /\ loop.st.level_of_detail_2nd_level

\* The main level's pixels stay inside its rows * cols * 4 bytes and its
\* row/col assertions hold.
MainInBounds ==
    /\ loop.st.main_first >= 0
    /\ loop.st.main_last <= loop.st.rows * loop.st.cols * 4
    /\ loop.st.main_assert_ok

\* The 2nd level's pixels stay inside its (rows/2) * (cols/2) * 4 bytes and
\* its row/col assertions hold.
LodInBounds ==
    /\ loop.st.lod_first >= loop.st.rows * loop.st.cols * 4
    /\ loop.st.lod_last <= BufferSize(loop.st.rows, loop.st.cols)
    /\ loop.st.lod_assert_ok

\* C15: for rows >= 1, cols >= 2 and the 2nd LOD level requested,
\* generate_layer_height_texture only writes inside a buffer of
\* rows*cols*4 + (rows/2)*(cols/2)*4 bytes: the initial clear, every pixel of
\* the main level, every pixel of the 2nd level and every duplicate at a row
\* seam stay in bounds, and the row/col assertions hold.
C15_TextureInBounds ==
    Textured =>
        /\ loop.st.cleared <= BufferSize(loop.st.rows, loop.st.cols)
        /\ MainInBounds
        /\ LodInBounds

====
